---- MODULE Spec2Model ----
(***************************************************************************)
(* Model of main.c: the Tick_10ms interrupt (periodic producer), the       *)
(* background loop of main() calling filterAirData and compensateAirData,  *)
(* and the fault handler Fault().                                          *)
(*                                                                         *)
(* One processor: Tick_10ms preempts main() between two statements unless  *)
(* T1 is masked (DI_T1 .. EI_T1); main() does not run while the interrupt  *)
(* routine is running.  Every C statement is one step.                     *)
(***************************************************************************)
EXTENDS Integers, Sequences, FiniteSets, TLC

\* ------------------------------------------------------------------ bounds
\* Number of Tick_10ms invocations explored.
MaxTicks == 3
\* FilterErrorCount is an int that grows without limit; explored up to here.
MaxErrCount == 7

\* ------------------------------------------------------- program constants
FAULT_NONE == 0
FAULT_OVERRUN == 1
FAULT_AIRFILTER == 2
FAULT_COMPENSATE_DIV == 3
FAULT_COMPENSATE_RANGE == 4

\* AIR_DATA_SCALE = 1.00325 = 4013/4000.  For every 16-bit t the double
\* product t * 1.00325 truncates to the same integer as t*4013 \div 4000.
AIR_DATA_SCALE_NUM == 4013
AIR_DATA_SCALE_DEN == 4000

\* unsigned short: 16 bits
USHORT_MOD == 65536
\* the range check of compensateAirData
COMPENSATE_MAX == 65535
\* "if(FilterErrorCount>5)"
FILTER_ERROR_LIMIT == 5

\* AirData_t
AirData(e, t, s) == [errorWord |-> e, tempC |-> t, speed |-> s]

\* Values the sensor port delivers in the interleaving model (Spec).
PortErrVals == {0, 1}
PortTempVals == {0, 1000}
PortSpeedVals == {100000, 700000000}

VARIABLES
  RawAirData,         \* global, written by Tick_10ms
  AirDataProcessed,   \* global over run flag
  FilteredAirData,    \* local of main
  CompensatedAirData, \* local of main
  err,                \* local of main
  FilterErrorCount,   \* local of main
  T1Masked,           \* interrupt mask of timer T1 (DI_T1 / EI_T1)
  T1Pending,          \* timer T1 has fired and Tick_10ms has not started yet
  pc,                 \* position of main()
  mainFaultArg,       \* argument of the Fault call main() is in (0: none)
  mainRet,            \* where main() continues after Fault returns
  isr,                \* position of Tick_10ms ("idle": not running)
  ushortConv,         \* what this build's conversion of a double to unsigned
                      \* short leaves when the value exceeds 65535
  \* ---- history variables (observers, never read by the program) ----
  nTicks,             \* number of Tick_10ms invocations started
  rawSrc,             \* per field of RawAirData: the invocation that wrote it
  filtSrc,            \* per field of FilteredAirData: the invocation it stems from
  tickOverrun,        \* the running/last invocation found the sample unconsumed
  tickFaults,         \* Fault calls made by the running/last invocation
  portRead,           \* the values the running/last invocation read
  iterFaults,         \* codes main() passed to Fault in this iteration
  streak,             \* consecutive filterAirData passes that returned an error
  afFaults,           \* Fault(FAULT_AIRFILTER) calls within the current streak
  streakSrc,          \* invocation whose errorWord the first pass of the streak read
  compBefore,         \* CompensatedAirData when compensateAirData was last entered
  lastGood,           \* output expected of the last successful compensation
  prevErr,            \* errorWord written by the invocation before the last (-1: none)
  glitchFault,        \* invocation whose sample, alone and after a good one,
                      \* led to Fault(FAULT_AIRFILTER) (0: none)
  prevOut,            \* FilteredAirData when filterAirData last returned
  prevRet,            \* the code filterAirData last returned
  tickHadCs,          \* a critical section had completed between the invocation
                      \* before and the running/last invocation, when it started
  quiet,              \* number (at most 2) of the latest filterAirData calls
                      \* that returned with no Tick_10ms invocation started
                      \* since the first of them was entered (-1: an
                      \* invocation started during the call in progress)
  csDone              \* a critical section of filterAirData has completed
                      \* since the last Tick_10ms invocation started

progVars == <<RawAirData, AirDataProcessed, FilteredAirData, CompensatedAirData,
              err, FilterErrorCount, T1Masked, T1Pending, pc, mainFaultArg,
              mainRet, isr, ushortConv>>
tickHist == <<nTicks, rawSrc, tickOverrun, tickFaults, portRead, prevErr, tickHadCs>>
mainHist == <<filtSrc, iterFaults, streak, afFaults, streakSrc, prevOut, prevRet, compBefore,
              lastGood, glitchFault>>
crossHist == <<quiet, csDone>>
vars == <<progVars, tickHist, mainHist, crossHist>>

Src(a, b, c) == [errorWord |-> a, tempC |-> b, speed |-> c]

\* line 48
InitRawAirData == AirData(1, 1000, 100000)
\* line 186
InitFilteredAirData == AirData(0, 0, 0)
\* line 187
InitCompensatedAirData == AirData(1, 1000, 1000000)

InitRest ==
  /\ AirDataProcessed = 1
  /\ FilteredAirData = InitFilteredAirData
  /\ CompensatedAirData = InitCompensatedAirData
  /\ err = 0
  /\ FilterErrorCount = 0
  /\ T1Masked = FALSE
  /\ T1Pending = FALSE
  /\ pc = "loop"
  /\ mainFaultArg = 0
  /\ mainRet = "loop"
  /\ isr = "idle"
  /\ nTicks = 0
  /\ rawSrc = Src(0, 0, 0)
  /\ filtSrc = Src(-1, -1, -1)
  /\ tickOverrun = FALSE
  /\ tickFaults = 0
  /\ portRead = InitRawAirData
  /\ iterFaults = <<>>
  /\ streak = 0
  /\ afFaults = 0
  /\ streakSrc = -1
  /\ compBefore = InitCompensatedAirData
  /\ lastGood = InitCompensatedAirData
  /\ prevErr = -1
  /\ glitchFault = 0
  /\ prevOut = InitFilteredAirData
  /\ prevRet = 0
  /\ tickHadCs = FALSE
  /\ quiet = 0
  /\ csDone = FALSE

\* line 97: converting a double that does not fit unsigned short is undefined;
\* a build either wraps the value modulo 2^16 or saturates it.
UShortConversions == {"wrap", "saturate"}

Init ==
  /\ RawAirData = InitRawAirData
  /\ ushortConv \in UShortConversions
  /\ InitRest

\* Raw samples for the sequential runs of the pipeline (SpecFn): main() alone,
\* the timer never fires, RawAirData holds any of these samples.
FnErrVals == {0, 1, 255}
FnTempVals == {0, 1, 1000, 4000, 65323, 65324, 65535}
FnSpeedVals == {0, 65535, 65536, 100000, 700000000, 2147483647}

InitFn ==
  /\ RawAirData \in {AirData(e, t, s) : e \in FnErrVals, t \in FnTempVals,
                                        s \in FnSpeedVals}
  /\ ushortConv \in UShortConversions
  /\ InitRest

\* ------------------------------------------------------------ timer T1
\* The 10 ms timer fires: the interrupt request is latched until Tick_10ms
\* starts.  A request that fires while one is latched changes nothing.
TimerFire ==
  /\ ~T1Pending
  /\ nTicks < MaxTicks
  /\ T1Pending' = TRUE
  /\ UNCHANGED <<RawAirData, AirDataProcessed, FilteredAirData, CompensatedAirData,
                 err, FilterErrorCount, T1Masked, pc, mainFaultArg, mainRet, ushortConv, isr>>
  /\ UNCHANGED <<tickHist, mainHist, crossHist>>

\* ------------------------------------------------------------ Tick_10ms
\* main() is inside a call of filterAirData (lines 88-113)
InFilterCall == pc \in {"f_di", "f_err", "f_temp", "f_speed", "f_flag", "f_ei", "f_ret"}

\* faulty variant: the test of the flag with the wrong sense
OverrunDetected_WrongSense == AirDataProcessed = 1

\* "if(AirDataProcessed!=1)"
OverrunDetected == AirDataProcessed # 1

\* faulty variant: the request is taken although T1 is masked
Tick_Enter_IgnoresMask ==
  /\ T1Pending
  /\ isr = "idle"
  /\ isr' = "t_check"
  /\ T1Pending' = FALSE
  /\ nTicks' = nTicks + 1
  /\ tickOverrun' = (AirDataProcessed # 1)
  /\ tickFaults' = 0
  /\ tickHadCs' = csDone
  /\ csDone' = FALSE
  /\ quiet' = IF InFilterCall THEN -1 ELSE 0
  /\ UNCHANGED <<RawAirData, AirDataProcessed, FilteredAirData, CompensatedAirData,
                 err, FilterErrorCount, T1Masked, pc, mainFaultArg, mainRet, ushortConv>>
  /\ UNCHANGED <<rawSrc, portRead, prevErr, mainHist>>

\* The processor takes the latched request: only while T1 is unmasked, and
\* Tick_10ms does not interrupt itself.
Tick_Enter ==
  /\ T1Pending
  /\ ~T1Masked
  /\ isr = "idle"
  /\ isr' = "t_check"
  /\ T1Pending' = FALSE
  /\ nTicks' = nTicks + 1
  /\ tickOverrun' = (AirDataProcessed # 1)
  /\ tickFaults' = 0
  /\ tickHadCs' = csDone
  /\ csDone' = FALSE
  /\ quiet' = IF InFilterCall THEN -1 ELSE 0
  /\ UNCHANGED <<RawAirData, AirDataProcessed, FilteredAirData, CompensatedAirData,
                 err, FilterErrorCount, T1Masked, pc, mainFaultArg, mainRet, ushortConv>>
  /\ UNCHANGED <<rawSrc, portRead, prevErr, mainHist>>

\* lines 65-69: the over run check; on an over run Fault(FAULT_OVERRUN) is entered
Tick_Check ==
  /\ isr = "t_check"
  /\ IF OverrunDetected
       THEN /\ isr' = "t_fault"
            /\ tickFaults' = tickFaults + 1
            /\ UNCHANGED AirDataProcessed
       ELSE /\ isr' = "t_err"
            /\ AirDataProcessed' = 0
            /\ UNCHANGED tickFaults
  /\ UNCHANGED <<RawAirData, FilteredAirData, CompensatedAirData, err,
                 FilterErrorCount, T1Masked, T1Pending, pc, mainFaultArg, mainRet, ushortConv>>
  /\ UNCHANGED <<nTicks, rawSrc, tickOverrun, portRead, prevErr, tickHadCs, mainHist,
                 crossHist>>

\* faulty variant: after the over run fault Tick_10ms returns without sampling
Tick_FaultReturn_Abort ==
  /\ isr = "t_fault"
  /\ isr' = "t_ret"
  /\ UNCHANGED <<RawAirData, AirDataProcessed, FilteredAirData, CompensatedAirData,
                 err, FilterErrorCount, T1Masked, T1Pending, pc, mainFaultArg, mainRet, ushortConv>>
  /\ UNCHANGED <<tickHist, mainHist, crossHist>>

\* lines 127-133: Fault(FAULT_OVERRUN) returns to Tick_10ms
Tick_FaultReturn ==
  /\ isr = "t_fault"
  /\ isr' = "t_err"
  /\ UNCHANGED <<RawAirData, AirDataProcessed, FilteredAirData, CompensatedAirData,
                 err, FilterErrorCount, T1Masked, T1Pending, pc, mainFaultArg, mainRet, ushortConv>>
  /\ UNCHANGED <<tickHist, mainHist, crossHist>>

TickFrame ==
  /\ UNCHANGED <<AirDataProcessed, FilteredAirData, CompensatedAirData, err,
                 FilterErrorCount, T1Masked, T1Pending, pc, mainFaultArg, mainRet, ushortConv>>
  /\ UNCHANGED <<nTicks, tickOverrun, tickFaults, tickHadCs, mainHist, crossHist>>

\* line 72: RawAirData.errorWord = ReadPort8(PORT_A)
Tick_ReadErr ==
  /\ isr = "t_err"
  /\ \E v \in PortErrVals :
       /\ RawAirData' = [RawAirData EXCEPT !.errorWord = v]
       /\ portRead' = [portRead EXCEPT !.errorWord = v]
  /\ rawSrc' = [rawSrc EXCEPT !.errorWord = nTicks]
  /\ prevErr' = IF nTicks = 1 THEN -1 ELSE RawAirData.errorWord
  /\ isr' = "t_temp"
  /\ TickFrame

\* faulty variant: Tick_10ms returns after the temperature, the speed is not read
Tick_ReadTemp_ReturnsEarly ==
  /\ isr = "t_temp"
  /\ \E v \in PortTempVals :
       /\ RawAirData' = [RawAirData EXCEPT !.tempC = v]
       /\ portRead' = [portRead EXCEPT !.tempC = v]
  /\ rawSrc' = [rawSrc EXCEPT !.tempC = nTicks]
  /\ isr' = "t_ret"
  /\ UNCHANGED prevErr
  /\ TickFrame

\* line 73: RawAirData.tempC = ReadPort16(PORT_A)
Tick_ReadTemp ==
  /\ isr = "t_temp"
  /\ \E v \in PortTempVals :
       /\ RawAirData' = [RawAirData EXCEPT !.tempC = v]
       /\ portRead' = [portRead EXCEPT !.tempC = v]
  /\ rawSrc' = [rawSrc EXCEPT !.tempC = nTicks]
  /\ isr' = "t_speed"
  /\ UNCHANGED prevErr
  /\ TickFrame

\* line 74: RawAirData.speed = ReadPort32(PORT_A)
Tick_ReadSpeed ==
  /\ isr = "t_speed"
  /\ \E v \in PortSpeedVals :
       /\ RawAirData' = [RawAirData EXCEPT !.speed = v]
       /\ portRead' = [portRead EXCEPT !.speed = v]
  /\ rawSrc' = [rawSrc EXCEPT !.speed = nTicks]
  /\ isr' = "t_ret"
  /\ UNCHANGED prevErr
  /\ TickFrame

\* line 76: return from interrupt
Tick_Return ==
  /\ isr = "t_ret"
  /\ isr' = "idle"
  /\ UNCHANGED <<RawAirData, AirDataProcessed, FilteredAirData, CompensatedAirData,
                 err, FilterErrorCount, T1Masked, T1Pending, pc, mainFaultArg, mainRet, ushortConv>>
  /\ UNCHANGED <<tickHist, mainHist, crossHist>>

\* ------------------------------------------------------------ main()
\* main() executes its next statement: Tick_10ms is not running, and no
\* unmasked request of T1 is waiting (the processor would take that first).
MainRuns ==
  /\ isr = "idle"
  /\ ~(T1Pending /\ ~T1Masked)

MainFrameTick == UNCHANGED <<RawAirData, T1Pending, isr, ushortConv, tickHist>>

MainFrame ==
  /\ MainFrameTick
  /\ UNCHANGED crossHist

\* lines 192-197: top of loop 1, filterAirData(&RawAirData, &FilteredAirData) is called
Main_CallFilter ==
  /\ MainRuns
  /\ pc = "loop"
  /\ pc' = "f_di"
  /\ iterFaults' = <<>>
  /\ UNCHANGED <<AirDataProcessed, FilteredAirData, CompensatedAirData, err,
                 FilterErrorCount, T1Masked, mainFaultArg, mainRet>>
  /\ UNCHANGED <<filtSrc, streak, afFaults, streakSrc, prevOut, prevRet, compBefore, lastGood,
                 glitchFault>>
  /\ MainFrame

\* faulty variant: filterAirData without DI_T1
Filter_DI_NoMask ==
  /\ MainRuns
  /\ pc = "f_di"
  /\ pc' = "f_err"
  /\ UNCHANGED <<AirDataProcessed, FilteredAirData, CompensatedAirData, err,
                 FilterErrorCount, T1Masked, mainFaultArg, mainRet>>
  /\ UNCHANGED mainHist
  /\ MainFrame

\* line 91: DI_T1
Filter_DI ==
  /\ MainRuns
  /\ pc = "f_di"
  /\ T1Masked' = TRUE
  /\ pc' = "f_err"
  /\ UNCHANGED <<AirDataProcessed, FilteredAirData, CompensatedAirData, err,
                 FilterErrorCount, mainFaultArg, mainRet>>
  /\ UNCHANGED mainHist
  /\ MainFrame

FilterFrame ==
  /\ UNCHANGED <<AirDataProcessed, CompensatedAirData, err, FilterErrorCount,
                 T1Masked, mainFaultArg, mainRet>>
  /\ UNCHANGED <<iterFaults, streak, afFaults, streakSrc, prevOut, prevRet, compBefore, lastGood,
                 glitchFault>>
  /\ MainFrame

\* line 94: out->errorWord = in->errorWord
Filter_CopyErrorWord ==
  /\ MainRuns
  /\ pc = "f_err"
  /\ FilteredAirData' = [FilteredAirData EXCEPT !.errorWord = RawAirData.errorWord]
  /\ filtSrc' = [filtSrc EXCEPT !.errorWord = rawSrc.errorWord]
  /\ pc' = "f_temp"
  /\ FilterFrame

\* in->tempC * AIR_DATA_SCALE, truncated toward zero
ScaleTempC(t) == (t * AIR_DATA_SCALE_NUM) \div AIR_DATA_SCALE_DEN

\* The value the conversion of the double product to unsigned short leaves in
\* out->tempC.  A product that does not fit 16 bits makes the conversion
\* undefined: the build either wraps it modulo 2^16 or saturates it.
TempCOutcomes(t) ==
  IF ScaleTempC(t) < USHORT_MOD
    THEN {ScaleTempC(t)}
    ELSE IF ushortConv = "wrap"
           THEN {ScaleTempC(t) % USHORT_MOD}
           ELSE {USHORT_MOD - 1}

\* faulty variant: the temperature is scaled in place, in->tempC *= AIR_DATA_SCALE
Filter_ScaleTemp_InPlace ==
  /\ MainRuns
  /\ pc = "f_temp"
  /\ \E v \in TempCOutcomes(RawAirData.tempC) :
       /\ FilteredAirData' = [FilteredAirData EXCEPT !.tempC = v]
       /\ RawAirData' = [RawAirData EXCEPT !.tempC = v]
  /\ filtSrc' = [filtSrc EXCEPT !.tempC = rawSrc.tempC]
  /\ pc' = "f_speed"
  /\ UNCHANGED <<AirDataProcessed, CompensatedAirData, err, FilterErrorCount,
                 T1Masked, mainFaultArg, mainRet>>
  /\ UNCHANGED <<iterFaults, streak, afFaults, streakSrc, prevOut, prevRet, compBefore,
                 lastGood, glitchFault>>
  /\ UNCHANGED <<T1Pending, isr, ushortConv, tickHist, crossHist>>

\* line 97: out->tempC = in->tempC * AIR_DATA_SCALE
Filter_ScaleTemp ==
  /\ MainRuns
  /\ pc = "f_temp"
  /\ \E v \in TempCOutcomes(RawAirData.tempC) :
       FilteredAirData' = [FilteredAirData EXCEPT !.tempC = v]
  /\ filtSrc' = [filtSrc EXCEPT !.tempC = rawSrc.tempC]
  /\ pc' = "f_speed"
  /\ FilterFrame

\* line 100: out->speed = in->speed
Filter_CopySpeed ==
  /\ MainRuns
  /\ pc = "f_speed"
  /\ FilteredAirData' = [FilteredAirData EXCEPT !.speed = RawAirData.speed]
  /\ filtSrc' = [filtSrc EXCEPT !.speed = rawSrc.speed]
  /\ pc' = "f_flag"
  /\ FilterFrame

\* faulty variant: the processed flag is not set
Filter_SetProcessed_Skip ==
  /\ MainRuns
  /\ pc = "f_flag"
  /\ UNCHANGED AirDataProcessed
  /\ pc' = "f_ei"
  /\ UNCHANGED <<FilteredAirData, CompensatedAirData, err, FilterErrorCount,
                 T1Masked, mainFaultArg, mainRet>>
  /\ UNCHANGED mainHist
  /\ MainFrame

\* line 103: AirDataProcessed = 1
Filter_SetProcessed ==
  /\ MainRuns
  /\ pc = "f_flag"
  /\ AirDataProcessed' = 1
  /\ pc' = "f_ei"
  /\ UNCHANGED <<FilteredAirData, CompensatedAirData, err, FilterErrorCount,
                 T1Masked, mainFaultArg, mainRet>>
  /\ UNCHANGED mainHist
  /\ MainFrame

\* faulty variant: filterAirData without EI_T1
Filter_EI_NoUnmask ==
  /\ MainRuns
  /\ pc = "f_ei"
  /\ pc' = "f_ret"
  /\ UNCHANGED <<AirDataProcessed, FilteredAirData, CompensatedAirData, err,
                 FilterErrorCount, T1Masked, mainFaultArg, mainRet>>
  /\ UNCHANGED mainHist
  /\ csDone' = TRUE
  /\ UNCHANGED quiet
  /\ MainFrameTick

\* line 106: EI_T1
Filter_EI ==
  /\ MainRuns
  /\ pc = "f_ei"
  /\ T1Masked' = FALSE
  /\ pc' = "f_ret"
  /\ UNCHANGED <<AirDataProcessed, FilteredAirData, CompensatedAirData, err,
                 FilterErrorCount, mainFaultArg, mainRet>>
  /\ UNCHANGED mainHist
  /\ csDone' = TRUE
  /\ UNCHANGED quiet
  /\ MainFrameTick

\* lines 109-113: the code filterAirData returns
filterRet(out) == IF out.errorWord # 0 THEN FAULT_AIRFILTER ELSE 0

\* lines 109-113 and the assignment of line 197: err = filterAirData(...)
Filter_Return ==
  /\ MainRuns
  /\ pc = "f_ret"
  /\ err' = filterRet(FilteredAirData)
  /\ pc' = "m_filt"
  /\ IF filterRet(FilteredAirData) # 0
       THEN /\ streak' = streak + 1
            /\ streakSrc' = IF streak = 0 THEN filtSrc.errorWord ELSE streakSrc
            /\ UNCHANGED afFaults
       ELSE /\ streak' = 0
            /\ streakSrc' = -1
            /\ afFaults' = 0
  /\ UNCHANGED <<AirDataProcessed, FilteredAirData, CompensatedAirData,
                 FilterErrorCount, T1Masked, mainFaultArg, mainRet>>
  /\ UNCHANGED <<filtSrc, iterFaults, compBefore, lastGood, glitchFault>>
  /\ prevOut' = FilteredAirData
  /\ prevRet' = filterRet(FilteredAirData)
  /\ quiet' = IF quiet = -1 THEN 0 ELSE IF quiet >= 1 THEN 2 ELSE 1
  /\ UNCHANGED csDone
  /\ MainFrameTick

\* main() enters Fault(code) and will continue at ret
MainCallFault(code, ret) ==
  /\ pc' = "Fault"
  /\ mainFaultArg' = code
  /\ mainRet' = ret
  /\ iterFaults' = Append(iterFaults, code)
  /\ afFaults' = IF code = FAULT_AIRFILTER THEN afFaults + 1 ELSE afFaults
  /\ glitchFault' = IF /\ code = FAULT_AIRFILTER
                       /\ glitchFault = 0
                       /\ streakSrc >= 2
                       /\ streakSrc = nTicks
                       /\ prevErr = 0
                      THEN streakSrc
                      ELSE glitchFault

\* faulty variant: ">=" in place of ">"
DebounceExceeded_OffByOne(count) == count >= FILTER_ERROR_LIMIT

\* "if(FilterErrorCount>5)"
DebounceExceeded(count) == count > FILTER_ERROR_LIMIT

\* faulty variant: the escalation restarts the count
Main_FilterCheck_ResetOnFault ==
  /\ MainRuns
  /\ pc = "m_filt"
  /\ IF err # 0
       THEN /\ FilterErrorCount < MaxErrCount
            /\ FilterErrorCount' = IF DebounceExceeded(FilterErrorCount + 1)
                                   THEN 0 ELSE FilterErrorCount + 1
            /\ IF DebounceExceeded(FilterErrorCount + 1)
                 THEN MainCallFault(FAULT_AIRFILTER, "m_comp")
                 ELSE /\ pc' = "m_comp"
                      /\ UNCHANGED <<mainFaultArg, mainRet, iterFaults, afFaults,
                                     glitchFault>>
       ELSE /\ FilterErrorCount' = 0
            /\ pc' = "m_comp"
            /\ UNCHANGED <<mainFaultArg, mainRet, iterFaults, afFaults, glitchFault>>
  /\ UNCHANGED <<AirDataProcessed, FilteredAirData, CompensatedAirData, err, T1Masked>>
  /\ UNCHANGED <<filtSrc, streak, streakSrc, prevOut, prevRet, compBefore, lastGood>>
  /\ MainFrame

\* lines 200-205: the debounce of the filter errors
Main_FilterCheck ==
  /\ MainRuns
  /\ pc = "m_filt"
  /\ IF err # 0
       THEN /\ FilterErrorCount < MaxErrCount
            /\ FilterErrorCount' = FilterErrorCount + 1
            /\ IF DebounceExceeded(FilterErrorCount + 1)
                 THEN MainCallFault(FAULT_AIRFILTER, "m_comp")
                 ELSE /\ pc' = "m_comp"
                      /\ UNCHANGED <<mainFaultArg, mainRet, iterFaults, afFaults,
                                     glitchFault>>
       ELSE /\ FilterErrorCount' = 0
            /\ pc' = "m_comp"
            /\ UNCHANGED <<mainFaultArg, mainRet, iterFaults, afFaults, glitchFault>>
  /\ UNCHANGED <<AirDataProcessed, FilteredAirData, CompensatedAirData, err, T1Masked>>
  /\ UNCHANGED <<filtSrc, streak, streakSrc, prevOut, prevRet, compBefore, lastGood>>
  /\ MainFrame

\* lines 127-133: Fault returns to main()
Main_FaultReturn ==
  /\ MainRuns
  /\ pc = "Fault"
  /\ pc' = mainRet
  /\ mainFaultArg' = 0
  /\ UNCHANGED <<AirDataProcessed, FilteredAirData, CompensatedAirData, err,
                 FilterErrorCount, T1Masked, mainRet>>
  /\ UNCHANGED mainHist
  /\ MainFrame

\* faulty variant: ">=" in the range check
compensateRet_OffByOne(in) ==
  IF in.tempC = 0 THEN FAULT_COMPENSATE_DIV
  ELSE IF in.speed \div in.tempC >= COMPENSATE_MAX THEN FAULT_COMPENSATE_RANGE
  ELSE 0

\* lines 154-163, 173: the code compensateAirData returns
compensateRet(in) ==
  IF in.tempC = 0 THEN FAULT_COMPENSATE_DIV
  ELSE IF in.speed \div in.tempC > COMPENSATE_MAX THEN FAULT_COMPENSATE_RANGE
  ELSE 0

\* faulty variant: the quotient is stored in out->tempC before the range check
compensateOut_StoreBeforeCheck(in, out) ==
  IF in.tempC = 0 THEN out
  ELSE IF in.speed \div in.tempC > COMPENSATE_MAX
         THEN [out EXCEPT !.tempC = (in.speed \div in.tempC) % USHORT_MOD]
  ELSE [errorWord |-> in.errorWord, tempC |-> in.speed \div in.tempC,
        speed |-> in.speed]

\* lines 167-171: the output sample after the call
compensateOut(in, out) ==
  IF compensateRet(in) # 0 THEN out
  ELSE [errorWord |-> in.errorWord, tempC |-> in.speed \div in.tempC,
        speed |-> in.speed]

\* faulty variant: the quotient is also placed back into in->tempC
Main_Compensate_InPlace ==
  /\ MainRuns
  /\ pc = "m_comp"
  /\ err' = compensateRet(FilteredAirData)
  /\ CompensatedAirData' = compensateOut(FilteredAirData, CompensatedAirData)
  /\ pc' = "m_cerr"
  /\ compBefore' = CompensatedAirData
  /\ lastGood' = IF FilteredAirData.tempC # 0
                    /\ FilteredAirData.speed \div FilteredAirData.tempC <= COMPENSATE_MAX
                   THEN AirData(FilteredAirData.errorWord,
                                FilteredAirData.speed \div FilteredAirData.tempC,
                                FilteredAirData.speed)
                   ELSE lastGood
  /\ FilteredAirData' =
       IF compensateRet(FilteredAirData) = 0
         THEN [FilteredAirData EXCEPT
                 !.tempC = FilteredAirData.speed \div FilteredAirData.tempC]
         ELSE FilteredAirData
  /\ UNCHANGED <<AirDataProcessed, FilterErrorCount, T1Masked,
                 mainFaultArg, mainRet>>
  /\ UNCHANGED <<filtSrc, iterFaults, streak, afFaults, streakSrc, prevOut, prevRet, glitchFault>>
  /\ MainFrame

\* line 210: err = compensateAirData(&FilteredAirData, &CompensatedAirData)
Main_Compensate ==
  /\ MainRuns
  /\ pc = "m_comp"
  /\ err' = compensateRet(FilteredAirData)
  /\ CompensatedAirData' = compensateOut(FilteredAirData, CompensatedAirData)
  /\ pc' = "m_cerr"
  /\ compBefore' = CompensatedAirData
  /\ lastGood' = IF FilteredAirData.tempC # 0
                    /\ FilteredAirData.speed \div FilteredAirData.tempC <= COMPENSATE_MAX
                   THEN AirData(FilteredAirData.errorWord,
                                FilteredAirData.speed \div FilteredAirData.tempC,
                                FilteredAirData.speed)
                   ELSE lastGood
  /\ UNCHANGED <<AirDataProcessed, FilteredAirData, FilterErrorCount, T1Masked,
                 mainFaultArg, mainRet>>
  /\ UNCHANGED <<filtSrc, iterFaults, streak, afFaults, streakSrc, prevOut, prevRet, glitchFault>>
  /\ MainFrame

\* faulty variant: only the division fault is escalated
CompensateFaultDue_DivOnly(e) == e = FAULT_COMPENSATE_DIV

\* "if(err)" of line 213
CompensateFaultDue(e) == e # 0

\* lines 213-215: if(err) Fault(err)
Main_CompensateCheck ==
  /\ MainRuns
  /\ pc = "m_cerr"
  /\ IF CompensateFaultDue(err)
       THEN MainCallFault(err, "loop_end")
       ELSE /\ pc' = "loop_end"
            /\ UNCHANGED <<mainFaultArg, mainRet, iterFaults, afFaults, glitchFault>>
  /\ UNCHANGED <<AirDataProcessed, FilteredAirData, CompensatedAirData, err,
                 FilterErrorCount, T1Masked>>
  /\ UNCHANGED <<filtSrc, streak, streakSrc, prevOut, prevRet, compBefore, lastGood>>
  /\ MainFrame

\* line 220: end of loop 1, back to while(1)
Main_LoopEnd ==
  /\ MainRuns
  /\ pc = "loop_end"
  /\ pc' = "loop"
  /\ UNCHANGED <<AirDataProcessed, FilteredAirData, CompensatedAirData, err,
                 FilterErrorCount, T1Masked, mainFaultArg, mainRet>>
  /\ UNCHANGED mainHist
  /\ MainFrame

\* ------------------------------------------------------------ specification
MainStep ==
  \/ Main_CallFilter
  \/ Filter_DI
  \/ Filter_CopyErrorWord
  \/ Filter_ScaleTemp
  \/ Filter_CopySpeed
  \/ Filter_SetProcessed
  \/ Filter_EI
  \/ Filter_Return
  \/ Main_FilterCheck
  \/ Main_FaultReturn
  \/ Main_Compensate
  \/ Main_CompensateCheck
  \/ Main_LoopEnd

TickStep ==
  \/ TimerFire
  \/ Tick_Enter
  \/ Tick_Check
  \/ Tick_FaultReturn
  \/ Tick_ReadErr
  \/ Tick_ReadTemp
  \/ Tick_ReadSpeed
  \/ Tick_Return

Next == MainStep \/ TickStep

Spec == Init /\ [][Next]_vars

\* main() alone on an arbitrary raw sample
SpecFn == InitFn /\ [][MainStep]_vars

\* The steps of a Tick_10ms invocation, from the processor taking the request
TickRun ==
  \/ Tick_Enter
  \/ Tick_Check
  \/ Tick_FaultReturn
  \/ Tick_ReadErr
  \/ Tick_ReadTemp
  \/ Tick_ReadSpeed
  \/ Tick_Return

\* The processor keeps executing: main() takes its next step when it can, and
\* a request of T1 that can be taken is taken.  The timer itself need not fire.
LiveSpec == Init /\ [][Next]_vars /\ WF_vars(MainStep) /\ WF_vars(TickRun)

\* ------------------------------------------------------------ properties
\* main() is between DI_T1 and EI_T1 of filterAirData
InCriticalSection == pc \in {"f_err", "f_temp", "f_speed", "f_flag", "f_ei"}

\* A Tick_10ms invocation has run to its end
TickCompleted == nTicks >= 1 /\ isr \in {"t_ret", "idle"}

\* C1: a Tick_10ms invocation that finds the previous sample unconsumed calls
\* Fault(FAULT_OVERRUN) exactly once, one that finds it consumed never calls
\* it, and at its end all three fields of RawAirData are the values this
\* invocation read.
C1_OverrunOncePerOccurrence ==
  /\ tickFaults <= 1
  /\ isr = "t_fault" => tickOverrun
  /\ TickCompleted =>
       /\ tickFaults = (IF tickOverrun THEN 1 ELSE 0)
       /\ rawSrc = Src(nTicks, nTicks, nTicks)
       /\ RawAirData = portRead

C1_Witness ==
  /\ isr = "t_ret"
  /\ nTicks = 2
  /\ tickOverrun
  /\ tickFaults = 1
  /\ rawSrc = Src(2, 2, 2)

\* C2: outside the copy itself, the three fields of FilteredAirData stem from
\* the RawAirData written by one single Tick_10ms invocation (or from the
\* initial RawAirData, or are still the initial FilteredAirData).
C2_NoTornSample ==
  pc \notin {"f_temp", "f_speed"} =>
    /\ filtSrc.errorWord = filtSrc.tempC
    /\ filtSrc.tempC = filtSrc.speed

C2_Witness ==
  /\ pc = "f_ret"
  /\ filtSrc = Src(2, 2, 2)
  /\ T1Pending

\* C3: T1 is masked only while main() is between DI_T1 and EI_T1 of
\* filterAirData, and filterAirData returns (either code) with T1 unmasked.
C3_MaskedOnlyInCriticalSection ==
  /\ T1Masked => InCriticalSection
  /\ pc \in {"f_ret", "m_filt"} => ~T1Masked

C3_Witness ==
  /\ pc = "m_filt"
  /\ err = FAULT_AIRFILTER
  /\ nTicks >= 1
  /\ ~T1Masked

C5_FailureKeepsOutput ==
  /\ (pc = "m_cerr" /\ err # 0) => CompensatedAirData = compBefore
  /\ CompensatedAirData = lastGood

C5_Witness ==
  /\ pc = "m_cerr"
  /\ err = FAULT_COMPENSATE_RANGE
  /\ CompensatedAirData = compBefore
  /\ CompensatedAirData # InitCompensatedAirData

C7_FilterResult ==
  /\ pc \in {"f_flag", "f_ei"} =>
       /\ FilteredAirData.errorWord = RawAirData.errorWord
       /\ FilteredAirData.speed = RawAirData.speed
       /\ FilteredAirData.tempC =
            (RawAirData.tempC * AIR_DATA_SCALE_NUM) \div AIR_DATA_SCALE_DEN
  /\ pc = "m_filt" =>
       err = (IF FilteredAirData.errorWord # 0 THEN FAULT_AIRFILTER ELSE 0)

\* The compensator codes among the codes passed to Fault
CompensatorCodes(codes) ==
  SelectSeq(codes, LAMBDA c : c \in {FAULT_COMPENSATE_DIV, FAULT_COMPENSATE_RANGE})

\* C8: at the end of every iteration of loop 1, Fault has been called with the
\* code compensateAirData returned exactly once if that code is not 0 and
\* with no compensator code if it is 0; before compensateAirData has run in
\* an iteration no compensator code has been passed to Fault.
C8_CompensateFaultImmediate ==
  /\ pc = "loop_end" =>
       CompensatorCodes(iterFaults) = (IF err # 0 THEN <<err>> ELSE <<>>)
  /\ (pc = "Fault" /\ mainRet = "loop_end") =>
       (mainFaultArg = err /\ CompensatorCodes(iterFaults) = <<err>>)
  /\ (InCriticalSection \/ pc \in {"f_di", "f_ret", "m_filt", "m_comp", "m_cerr"}
        \/ (pc = "Fault" /\ mainRet = "m_comp")) =>
       CompensatorCodes(iterFaults) = <<>>

C8_Witness ==
  /\ pc = "loop_end"
  /\ err = FAULT_COMPENSATE_RANGE
  /\ iterFaults = <<FAULT_COMPENSATE_RANGE>>
  /\ FilterErrorCount = 0

\* A call of Fault is in progress
FaultInProgress == pc = "Fault" \/ isr = "t_fault"

\* C9: while a call of Fault is in progress (from Tick_10ms or from main())
\* T1 is unmasked and main() is not between DI_T1 and EI_T1.
C9_NoFaultWhileMasked ==
  FaultInProgress => (~T1Masked /\ ~InCriticalSection)

C9_Witness ==
  /\ isr = "t_fault"
  /\ pc = "f_di"
  /\ ~T1Masked

\* C10 (as claimed): a single sample with errorWord # 0, written by one
\* invocation after a sample with errorWord = 0 and followed by a sample with
\* errorWord = 0, never leads to Fault(FAULT_AIRFILTER).
C10_GlitchTolerated ==
  ~ /\ glitchFault >= 2
    /\ nTicks = glitchFault + 1
    /\ TickCompleted
    /\ RawAirData.errorWord = 0

\* C11: filterAirData never writes RawAirData; a call during which no
\* Tick_10ms invocation started returns with AirDataProcessed = 1; and the
\* second of two calls with no invocation started since the first was
\* entered leaves the same FilteredAirData and returns the same code as the
\* first.
C11_FilterIdempotent ==
  [][/\ (InFilterCall /\ isr = "idle" /\ isr' = "idle") => RawAirData' = RawAirData
     /\ (pc = "f_ret" /\ pc' = "m_filt" /\ quiet' >= 1) => AirDataProcessed' = 1
     /\ (pc = "f_ret" /\ pc' = "m_filt" /\ quiet' = 2) =>
          (FilteredAirData' = prevOut /\ err' = prevRet)]_vars

C11_Witness ==
  /\ pc = "m_filt"
  /\ quiet = 2
  /\ nTicks >= 1
  /\ filtSrc = Src(nTicks, nTicks, nTicks)
  /\ FilteredAirData = prevOut
  /\ AirDataProcessed = 1

\* C12: every Tick_10ms invocation, with or without an over run, reaches its
\* return with all three RawAirData fields written with the values it read
\* and with AirDataProcessed = 0, and it never masks T1, so later periods
\* are sampled as well.
C12_TickAlwaysSamples ==
  /\ isr # "idle" => ~T1Masked
  /\ isr = "t_ret" =>
       /\ rawSrc = Src(nTicks, nTicks, nTicks)
       /\ RawAirData = portRead
       /\ AirDataProcessed = 0
  /\ (isr = "idle" /\ nTicks >= 1) => rawSrc = Src(nTicks, nTicks, nTicks)

C12_Witness ==
  /\ isr = "t_ret"
  /\ nTicks = 3
  /\ tickOverrun
  /\ tickFaults = 1
  /\ ~tickHadCs
  /\ rawSrc = Src(3, 3, 3)
  /\ AirDataProcessed = 0

\* C13: the call of compensateAirData leaves its input sample, RawAirData,
\* AirDataProcessed, FilterErrorCount and the T1 mask unchanged, and leaves
\* the output sample unchanged unless it returns 0.
C13_CompensateFrame ==
  [][(pc = "m_comp" /\ pc' = "m_cerr") =>
       /\ FilteredAirData' = FilteredAirData
       /\ RawAirData' = RawAirData
       /\ AirDataProcessed' = AirDataProcessed
       /\ FilterErrorCount' = FilterErrorCount
       /\ T1Masked' = T1Masked
       /\ err' # 0 => CompensatedAirData' = CompensatedAirData]_vars

C13_Witness ==
  /\ pc = "m_cerr"
  /\ err = 0
  /\ CompensatedAirData # compBefore
  /\ nTicks >= 1

\* C14: the first Tick_10ms invocation never reports an over run; every later
\* invocation calls Fault(FAULT_OVERRUN) if and only if no critical section
\* of filterAirData completed since the invocation before it started.
C14_OverrunIffNoCriticalSection ==
  /\ nTicks = 1 => (~tickOverrun /\ tickFaults = 0)
  /\ (nTicks >= 2 /\ isr # "t_check") => ((tickFaults = 1) <=> ~tickHadCs)

C14_Witness ==
  /\ nTicks = 2
  /\ isr = "t_ret"
  /\ tickHadCs
  /\ tickFaults = 0
  /\ pc = "f_ret"

\* C15 (as claimed): for every 16-bit raw tempC the truncated product
\* tempC * 1.00325 fits the 16-bit out->tempC, which therefore holds it.
C15_ScaledFitsUShort ==
  pc \in {"f_speed", "f_flag", "f_ei"} =>
    /\ ScaleTempC(RawAirData.tempC) < USHORT_MOD
    /\ FilteredAirData.tempC = ScaleTempC(RawAirData.tempC)

\* C16 (as claimed): in an invocation that found the previous sample
\* consumed, AirDataProcessed is 0 only once all three fields of RawAirData
\* have been written by this invocation.
C16_FlagAfterWrites ==
  (isr # "idle" /\ ~tickOverrun /\ AirDataProcessed = 0) =>
    rawSrc = Src(nTicks, nTicks, nTicks)

\* C16 (amended): such an invocation sets AirDataProcessed to 0 at the over
\* run check, before it writes the fields; whenever main() can execute
\* (Tick_10ms is not running), AirDataProcessed = 0 implies that all three
\* fields of RawAirData were written by the latest invocation.
C16_FlagConsistentForMain ==
  /\ (isr \in {"t_err", "t_temp", "t_speed", "t_ret"} /\ ~tickOverrun) =>
       AirDataProcessed = 0
  /\ (isr = "idle" /\ AirDataProcessed = 0) =>
       (nTicks >= 1 /\ rawSrc = Src(nTicks, nTicks, nTicks))

C16_Witness ==
  /\ isr = "idle"
  /\ AirDataProcessed = 0
  /\ nTicks = 1
  /\ ~tickOverrun
  /\ rawSrc = Src(1, 1, 1)
  /\ pc = "f_di"

\* The model stops counting at MaxErrCount failed passes in a row
CountExplored == FilterErrorCount = MaxErrCount

\* C17: under weak fairness of main() and of the interrupt service, T1 is
\* unmasked again and again (every DI_T1 is followed by EI_T1), no request of
\* T1 stays pending for ever, main() completes iteration after iteration of
\* loop 1 whatever AirDataProcessed is (as far as the counter is explored),
\* and no state is a deadlock.
C17_NeverBlocks ==
  /\ []<>(~T1Masked)
  /\ []<>(~T1Pending)
  /\ []<>(pc = "loop_end" \/ CountExplored)
  /\ [](ENABLED Next \/ (CountExplored /\ nTicks = MaxTicks))

C17_Witness ==
  /\ T1Masked
  /\ T1Pending
  /\ AirDataProcessed = 0
  /\ pc = "f_speed"
  /\ nTicks = 1

\* C18 (as claimed): Fault(FAULT_OVERRUN) called by Tick_10ms never begins
\* while a call of Fault made by main() is in progress.
C18_FaultNotReentered ==
  ~(isr = "t_fault" /\ pc = "Fault")

\* n - FILTER_ERROR_LIMIT, or 0 when that is negative
Excess(n) == IF n > FILTER_ERROR_LIMIT THEN n - FILTER_ERROR_LIMIT ELSE 0

C20_NoFilterFaultBeforeFirstTick ==
  (pc = "Fault" /\ mainFaultArg = FAULT_AIRFILTER) => nTicks >= 1

====
